---- MODULE Spec2Model ----
(***************************************************************************)
(* Permission subsystem of backend-bgestion: workspace membership,         *)
(* custom roles, role assignment, per-resource overrides, user groups and  *)
(* the permission audit log, as implemented by the Express route handlers  *)
(* over the PostgreSQL schema of src/src/database/migrate.js.              *)
(*                                                                         *)
(* A table is a set of rows (records); a UNIQUE constraint is enforced by  *)
(* the insert that would violate it (error 23505), an ON DELETE CASCADE    *)
(* by the delete of the referenced row.  Every handler is one action: its  *)
(* guards decide the HTTP status (an operator ...Status), and only a 2xx   *)
(* status changes the tables.  The two DELETE member handlers are split at *)
(* the await between their guard queries and their DELETE statement, since *)
(* other requests run there.                                               *)
(***************************************************************************)
EXTENDS Integers, Sequences, FiniteSets, TLC

\* ------------------------------------------------------------------ bounds
\* Longest audit log the model explores.
MaxAudit == 2
\* Longest "permissions" array a role request carries.
MaxPerms == 1
\* DELETE member requests that may be between guard and DELETE at once.
MaxPending == 1
\* Rows of permission_audit_logs in the two-role specification.
MaxAuditGrants == 4

\* ------------------------------------------------------------- value sets
Users == {"u1", "u2", "u3"}
Workspaces == {"w1"}
RoleIdSeq == <<"r1", "r2">>
RoleIds == {RoleIdSeq[i] : i \in 1..Len(RoleIdSeq)}
RoleNames == {"Budget Manager", "Auditor"}
GroupIdSeq == <<"g1", "g2">>
GroupIds == {GroupIdSeq[i] : i \in 1..Len(GroupIdSeq)}
Boards == {"b1"}
Projects == {"p1"}

\* Absence of a row / of a value (SQL NULL, empty result set).
NoRow == "-"

\* workspace_members.role values the handlers read and write.
MemberRoles == {"owner", "admin", "member", "viewer"}
\* body('role').isIn([...]) of the invite / add-member / update-role routes.
AssignableRoles == {"admin", "member", "viewer"}
\* ['owner', 'admin'].includes(role)
AdminRoles == {"owner", "admin"}

\* Codes of the permissions catalog that the model uses.
PermissionCodes == {"budget.edit", "admin.manage_all"}
\* Codes a request may carry: catalog codes and one that is not catalogued.
RequestCodes == PermissionCodes \cup {"no.such_code"}

\* permission_level values a request may carry.
Levels == {"view", "edit", "admin"}

GroupNames == {"Finance", "Ops"}

\* boards.workspace_id and sdsi_projects.workspace_id: the board and the
\* project of the model belong to w1.
BoardWorkspace(b) == "w1"
ProjectWorkspace(p) == "w1"

VARIABLES
  workspaces,             \* [Workspaces -> owner_id or NoRow (no such row)]
  workspace_members,      \* rows [workspace_id, user_id, role]
  workspace_roles,        \* rows [id, workspace_id, name]
  role_permissions,       \* rows [role_id, permission_id]
  user_roles,             \* rows [user_id, workspace_id, role_id]
  board_permissions,      \* rows [board_id, user_id, permission_level, granted_by]
  project_permissions,    \* rows [project_id, user_id, permission_level, granted_by]
  user_groups,            \* rows [id, workspace_id, name]
  user_group_members,     \* rows [group_id, user_id]
  permission_audit_logs,  \* sequence of audit rows, oldest first
  pendingRemove,          \* DELETE member requests between guard and DELETE
  pendingAdd,             \* add-member requests between their check and INSERT
  transactions,           \* PUT /roles/:roleId transactions between BEGIN and COMMIT
  reads,                  \* permission reads between their queries, and their answers
  last                    \* the handler that last answered with a 2xx status

vars == <<workspaces, workspace_members, workspace_roles, role_permissions,
          user_roles, board_permissions, project_permissions, user_groups,
          user_group_members, permission_audit_logs, pendingRemove,
          pendingAdd, transactions, reads, last>>

memberVars == <<workspaces, workspace_members>>
roleVars == <<workspace_roles, role_permissions, user_roles>>
overrideVars == <<board_permissions, project_permissions>>
groupVars == <<user_groups, user_group_members>>

\* All persistent tables (everything but the in-flight requests and `last`).
stores == <<workspaces, workspace_members, workspace_roles, role_permissions,
            user_roles, board_permissions, project_permissions, user_groups,
            user_group_members, permission_audit_logs>>

\* ---------------------------------------------------------------- helpers
\* A statement commits while reads are between their queries: each of them
\* has one more commit inside its span (counted up to two).
NoteCommit(rs) ==
  {IF rd.phase = "reading"
   THEN [rd EXCEPT !.commits = IF rd.commits < 2 THEN rd.commits + 1 ELSE 2]
   ELSE rd : rd \in rs}

\* A handler that ran its statements in one step answers: last names it,
\* the reads in flight have seen a commit, and no PUT /roles/:roleId
\* transaction or add-member request in flight is touched.
Answer(op) ==
  /\ last' = op
  /\ reads' = NoteCommit(reads)
  /\ UNCHANGED <<transactions, pendingAdd>>

\* SELECT role FROM workspace_members WHERE workspace_id = w AND user_id = u
MemberRows(w, u) ==
  {m \in workspace_members : m.workspace_id = w /\ m.user_id = u}

\* rows[0].role of that query, NoRow when rows.length === 0.
RoleOf(w, u) ==
  IF MemberRows(w, u) = {} THEN NoRow
  ELSE (CHOOSE m \in MemberRows(w, u) : TRUE).role

\* Variant: only the owner passes.
IsWsAdminOwnerOnly(w, u) == RoleOf(w, u) = "owner"

\* rows.length > 0 && ['owner', 'admin'].includes(rows[0].role)
IsWsAdmin(w, u) == RoleOf(w, u) \in AdminRoles

\* UPDATE workspace_members SET role = r WHERE workspace_id = w AND user_id = u
SetRole(members, w, u, r) ==
  {IF m.workspace_id = w /\ m.user_id = u
     THEN [m EXCEPT !.role = r] ELSE m : m \in members}

\* ------------------------------------------------------------------- Init
\* The database right after the migration: the permissions catalog is
\* filled, every other table is empty.
Init ==
  /\ workspaces = [w \in Workspaces |-> NoRow]
  /\ workspace_members = {}
  /\ workspace_roles = {}
  /\ role_permissions = {}
  /\ user_roles = {}
  /\ board_permissions = {}
  /\ project_permissions = {}
  /\ user_groups = {}
  /\ user_group_members = {}
  /\ permission_audit_logs = <<>>
  /\ pendingRemove = {}
  /\ pendingAdd = {}
  /\ transactions = {}
  /\ reads = {}
  /\ last = "init"

\* ------------------------------------------------------ workspace members
\* POST / (create workspace): insert the workspace with owner_id = creator,
\* then the creator's membership with role 'owner'.
createWorkspace(by) ==
  /\ \E w \in Workspaces :
       /\ workspaces[w] = NoRow
       /\ workspaces' = [workspaces EXCEPT ![w] = by]
       /\ workspace_members' = workspace_members \cup
            {[workspace_id |-> w, user_id |-> by, role |-> "owner"]}
  /\ Answer("createWorkspace")
  /\ UNCHANGED <<roleVars, overrideVars, groupVars, permission_audit_logs,
                 pendingRemove>>

\* Status of POST /:workspaceId/members (workspace routes) and of POST
\* /workspace/:workspaceId/invite (member routes) for the e-mail of an
\* existing user: requester must be owner/admin (403), the user must not be
\* a member yet (400).
addMemberStatus(by, w, u) ==
  IF ~IsWsAdmin(w, by) THEN 403
  ELSE IF MemberRows(w, u) # {} THEN 400
  ELSE 201

\* POST /:workspaceId/members: a plain INSERT INTO workspace_members.
addMember(by, w, u, role) ==
  IF addMemberStatus(by, w, u) = 201 THEN
    /\ workspace_members' = workspace_members \cup
         {[workspace_id |-> w, user_id |-> u, role |-> role]}
    /\ Answer("addMember")
    /\ UNCHANGED <<workspaces, roleVars, overrideVars, groupVars,
                   permission_audit_logs, pendingRemove>>
  ELSE UNCHANGED vars

\* POST /workspace/:workspaceId/invite: INSERT ... ON CONFLICT (workspace_id,
\* user_id) DO NOTHING.
invite(by, w, u, role) ==
  IF addMemberStatus(by, w, u) = 201 THEN
    /\ workspace_members' =
         IF MemberRows(w, u) # {} THEN workspace_members
         ELSE workspace_members \cup
                {[workspace_id |-> w, user_id |-> u, role |-> role]}
    /\ Answer("invite")
    /\ UNCHANGED <<workspaces, roleVars, overrideVars, groupVars,
                   permission_audit_logs, pendingRemove>>
  ELSE UNCHANGED vars

\* An INSERT INTO workspace_members that ignores UNIQUE(workspace_id,
\* user_id): the row is stored next to the one that is there.
InsertMemberRowNoUnique(w, u, role) ==
  workspace_members \cup {[workspace_id |-> w, user_id |-> u, role |-> role]}

\* The table after an INSERT INTO workspace_members under UNIQUE(workspace_id,
\* user_id): with a row for (w, u) stored, the plain INSERT fails with 23505
\* and ON CONFLICT DO NOTHING skips it; either way the table is as before.
InsertMemberRow(w, u, role) ==
  IF MemberRows(w, u) # {} THEN workspace_members
  ELSE workspace_members \cup
         {[workspace_id |-> w, user_id |-> u, role |-> role]}

\* The two routes that add an existing user to a workspace.
AddRoutes == {"members", "invite"}

\* How many add-member requests may be between their check and INSERT.
MaxAdds == 2

\* First half of POST /:workspaceId/members or POST .../invite: the
\* requester is owner/admin and the existingMember SELECT found no row.
addRequestBegin(by, w, u, role, route) ==
  /\ addMemberStatus(by, w, u) = 201
  /\ Cardinality(pendingAdd) < MaxAdds
  /\ pendingAdd' = pendingAdd \cup
       {[workspace_id |-> w, user_id |-> u, role |-> role, route |-> route]}
  /\ UNCHANGED <<memberVars, roleVars, overrideVars, groupVars,
                 permission_audit_logs, pendingRemove, transactions, reads,
                 last>>

\* Second half, no row for (w, u) stored: the INSERT adds the membership
\* and the request is answered 201.
addRequestInsert(p) ==
  /\ p \in pendingAdd
  /\ MemberRows(p.workspace_id, p.user_id) = {}
  /\ pendingAdd' = pendingAdd \ {p}
  /\ workspace_members' = InsertMemberRow(p.workspace_id, p.user_id, p.role)
  /\ last' = IF p.route = "members" THEN "addMember" ELSE "invite"
  /\ reads' = NoteCommit(reads)
  /\ UNCHANGED <<workspaces, roleVars, overrideVars, groupVars,
                 permission_audit_logs, pendingRemove, transactions>>

\* Second half, another request stored a row for (w, u) since the check:
\* the plain INSERT of POST /:workspaceId/members raises 23505 and the
\* catch answers 500; the INSERT of the invite route does nothing and the
\* request is answered as a success.
addRequestConflict(p) ==
  /\ p \in pendingAdd
  /\ MemberRows(p.workspace_id, p.user_id) # {}
  /\ pendingAdd' = pendingAdd \ {p}
  /\ workspace_members' = InsertMemberRow(p.workspace_id, p.user_id, p.role)
  /\ last' = IF p.route = "members" THEN "addMember500" ELSE "invite"
  /\ reads' = NoteCommit(reads)
  /\ UNCHANGED <<workspaces, roleVars, overrideVars, groupVars,
                 permission_audit_logs, pendingRemove, transactions>>

\* Status of PUT /workspace/:workspaceId/members/:memberId/role (and of PUT
\* /:workspaceId/members/:memberId): only the member whose role is 'owner'
\* may call (403); the user of workspaces.owner_id is protected (400).
updateMemberRoleStatus(by, w, u) ==
  IF RoleOf(w, by) # "owner" THEN 403
  ELSE IF workspaces[w] = u THEN 400
  ELSE 200

\* ... then UPDATE workspace_members SET role.
updateMemberRole(by, w, u, role) ==
  IF updateMemberRoleStatus(by, w, u) = 200 THEN
    /\ workspace_members' = SetRole(workspace_members, w, u, role)
    /\ Answer("updateMemberRole")
    /\ UNCHANGED <<workspaces, roleVars, overrideVars, groupVars,
                   permission_audit_logs, pendingRemove>>
  ELSE UNCHANGED vars

\* The guard of DELETE /workspace/:workspaceId/members/:memberId (member
\* routes): a member (403); self or owner/admin (403); not the user of
\* workspaces.owner_id (400); an admin may not remove another admin (403).
\* Result: the status it answers, 0 when it goes on to the DELETE statement.
memberRemoveGuard(by, w, u) ==
  LET wsRole == RoleOf(w, by) IN
  IF wsRole = NoRow THEN 403
  ELSE IF u # by /\ wsRole \notin AdminRoles THEN 403
  ELSE IF workspaces[w] = u THEN 400
  ELSE IF wsRole = "admin" /\ u # by /\ RoleOf(w, u) = "admin" THEN 403
  ELSE 0

\* The guard of DELETE /:workspaceId/members/:memberId (workspace routes):
\* the same without the admin-removes-admin rule.
workspaceRemoveGuard(by, w, u) ==
  LET wsRole == RoleOf(w, by) IN
  IF wsRole = NoRow THEN 403
  ELSE IF u # by /\ wsRole \notin AdminRoles THEN 403
  ELSE IF workspaces[w] = u THEN 400
  ELSE 0

\* First half of a DELETE member request: the guard queries passed.
removeMemberBegin(w, u, guard) ==
  /\ guard = 0
  /\ Cardinality(pendingRemove) < MaxPending
  /\ [workspace_id |-> w, user_id |-> u] \notin pendingRemove
  /\ pendingRemove' = pendingRemove \cup {[workspace_id |-> w, user_id |-> u]}
  /\ UNCHANGED <<memberVars, roleVars, overrideVars, groupVars,
                 permission_audit_logs, pendingAdd, transactions, reads, last>>

memberRoutesRemoveBegin(by, w, u) ==
  removeMemberBegin(w, u, memberRemoveGuard(by, w, u))

workspaceRoutesRemoveBegin(by, w, u) ==
  removeMemberBegin(w, u, workspaceRemoveGuard(by, w, u))

\* Second half: DELETE FROM workspace_members WHERE workspace_id AND user_id.
removeMemberCommit(p) ==
  /\ p \in pendingRemove
  /\ pendingRemove' = pendingRemove \ {p}
  /\ workspace_members' =
       workspace_members \ MemberRows(p.workspace_id, p.user_id)
  /\ Answer("removeMember")
  /\ UNCHANGED <<workspaces, roleVars, overrideVars, groupVars,
                 permission_audit_logs>>

\* Status of POST /workspace/:workspaceId/transfer-ownership: the caller's
\* role must be 'owner' (403), the new owner must be a member (400).
transferOwnershipStatus(by, w, newOwner) ==
  IF RoleOf(w, by) # "owner" THEN 403
  ELSE IF MemberRows(w, newOwner) = {} THEN 400
  ELSE 200

\* ... then, in one transaction: owner_id is set, the new owner's role
\* becomes 'owner', then the caller's role becomes 'admin'.
transferOwnership(by, w, newOwner) ==
  IF transferOwnershipStatus(by, w, newOwner) = 200 THEN
    /\ workspaces' = [workspaces EXCEPT ![w] = newOwner]
    /\ workspace_members' =
         SetRole(SetRole(workspace_members, w, newOwner, "owner"),
                 w, by, "admin")
    /\ Answer("transferOwnership")
    /\ UNCHANGED <<roleVars, overrideVars, groupVars, permission_audit_logs,
                   pendingRemove>>
  ELSE UNCHANGED vars

NextMembers ==
  \/ \E by \in Users : createWorkspace(by)
  \/ \E by, u \in Users, w \in Workspaces, role \in AssignableRoles :
       addMember(by, w, u, role)
  \/ \E by, u \in Users, w \in Workspaces, role \in AssignableRoles :
       invite(by, w, u, role)
  \/ \E by, u \in Users, w \in Workspaces, role \in AssignableRoles :
       updateMemberRole(by, w, u, role)
  \/ \E by, u \in Users, w \in Workspaces : memberRoutesRemoveBegin(by, w, u)
  \/ \E by, u \in Users, w \in Workspaces : workspaceRoutesRemoveBegin(by, w, u)
  \/ \E p \in pendingRemove : removeMemberCommit(p)
  \/ \E by, u \in Users, w \in Workspaces : transferOwnership(by, w, u)

SpecMembers == Init /\ [][NextMembers]_vars

\* Membership changes that the other specifications use to set the scene.
\* The users being interchangeable, u1 creates the workspace, u2 is the
\* user who joins it in any role, and u3 never becomes a member.
Joiners == {"u2"}
Subjects == {"u2", "u3"}

NextMembersBasic ==
  \/ \E by \in {"u1"} : createWorkspace(by)
  \/ \E by \in Users, u \in Joiners, w \in Workspaces, role \in AssignableRoles :
       addMember(by, w, u, role)

\* ------------------------------------------------------------ custom roles
\* The "permissions" arrays a request body may carry.
PermArrays ==
  UNION {[1..n -> RequestCodes] : n \in 0..MaxPerms}

\* SELECT id FROM permissions WHERE code = c, for every code of an array: the
\* codes that the catalog knows (permissions.code is UNIQUE, so the code
\* stands for the id).
Catalogued(perms) ==
  {perms[i] : i \in {j \in 1..Len(perms) : perms[j] \in PermissionCodes}}

\* INSERT INTO permission_audit_logs (...): the row; a column that the
\* statement does not name is NULL, written NoRow (ids) or <<>> (JSON).
AuditRow(ws, action, entityType, entityId, target, by, newValue) ==
  [workspace_id |-> ws, action |-> action, entity_type |-> entityType,
   entity_id |-> entityId, target_user_id |-> target, performed_by |-> by,
   old_value |-> <<>>, new_value |-> newValue]

\* Rows of workspace_roles with a given id.
RoleRows(r) == {x \in workspace_roles : x.id = r}

\* The workspace of role r.
RoleWorkspace(r) == (CHOOSE x \in RoleRows(r) : TRUE).workspace_id

\* The guard query of PUT and DELETE /roles/:roleId: the role joined with
\* the requester's membership in the role's workspace; it passes when a row
\* comes back and its member_role is owner or admin.
roleCheck(by, r) ==
  \E x \in RoleRows(r) : RoleOf(x.workspace_id, by) \in AdminRoles

\* uuid_generate_v4() of a new role row: an id that no row carries; which
\* one is immaterial, the model takes the first.
FreshRoleId ==
  LET free == {i \in 1..Len(RoleIdSeq) : RoleRows(RoleIdSeq[i]) = {}}
  IN RoleIdSeq[CHOOSE i \in free : \A j \in free : i <= j]

\* Variant: workspace_roles without UNIQUE (workspace_id, name).
createRoleStatusNoUnique(by, w, name) ==
  IF ~IsWsAdmin(w, by) THEN 403 ELSE 201

\* Status of POST /roles: owner/admin only (403); UNIQUE (workspace_id,
\* name) makes the INSERT fail with 23505, answered 400.
createRoleStatus(by, w, name) ==
  IF ~IsWsAdmin(w, by) THEN 403
  ELSE IF \E x \in workspace_roles : x.workspace_id = w /\ x.name = name THEN 400
  ELSE 201

\* POST /roles: in one transaction the role row and one grant per catalogued
\* code (ON CONFLICT DO NOTHING); after COMMIT the 'role_created' audit row
\* with new_value = {name, permissions} as requested.
createRole(by, w, name, perms) ==
  IF createRoleStatus(by, w, name) = 201 THEN
    /\ \E o \in RoleIds : RoleRows(o) = {}
    /\ LET id == FreshRoleId IN
       /\ workspace_roles' = workspace_roles \cup
            {[id |-> id, workspace_id |-> w, name |-> name]}
       /\ role_permissions' = role_permissions \cup
            {[role_id |-> id, permission_id |-> c] : c \in Catalogued(perms)}
       /\ permission_audit_logs' = Append(permission_audit_logs,
            AuditRow(w, "role_created", "role", id, NoRow, by,
                     <<[name |-> name, permissions |-> perms]>>))
    /\ Answer("createRole")
    /\ UNCHANGED <<memberVars, user_roles, overrideVars, groupVars,
                   pendingRemove>>
  ELSE UNCHANGED vars

\* A plain INSERT of the same (role_id, permission_id) twice violates the
\* UNIQUE constraint: the array names a catalogued code twice.
DuplicateGrant(perms) ==
  \E i, j \in 1..Len(perms) :
    i # j /\ perms[i] = perms[j] /\ perms[i] \in PermissionCodes

\* Status of PUT /roles/:roleId: roleCheck (403); a name that another role
\* of the workspace carries, or a code inserted twice, raises 23505, which
\* rolls the transaction back and is answered 500.  name = NoRow and
\* permsGiven = FALSE stand for fields that the body does not carry.
updateRoleStatus(by, r, name, permsGiven, perms) ==
  IF ~roleCheck(by, r) THEN 403
  ELSE IF \/ /\ name # NoRow
             /\ \E x \in workspace_roles :
                  /\ x.id # r
                  /\ x.workspace_id = RoleWorkspace(r)
                  /\ x.name = name
          \/ permsGiven /\ DuplicateGrant(perms) THEN 500
  ELSE 200

\* Variant: the new grants are added to the old ones (no DELETE).
MergedGrants(r, perms) ==
  role_permissions \cup
  {[role_id |-> r, permission_id |-> c] : c \in Catalogued(perms)}

\* What the transaction of PUT /roles/:roleId leaves in role_permissions:
\* all grants of the role deleted, one INSERT per catalogued code.
ReplacedGrants(r, perms) ==
  {g \in role_permissions : g.role_id # r} \cup
  {[role_id |-> r, permission_id |-> c] : c \in Catalogued(perms)}

\* PUT /roles/:roleId: UPDATE of the name when given, replacement of the
\* grants when an array is given.  No audit row is written.
updateRole(by, r, name, permsGiven, perms) ==
  IF updateRoleStatus(by, r, name, permsGiven, perms) = 200 THEN
    /\ workspace_roles' =
         IF name = NoRow THEN workspace_roles
         ELSE {IF x.id = r THEN [x EXCEPT !.name = name] ELSE x :
                 x \in workspace_roles}
    /\ role_permissions' =
         IF permsGiven THEN ReplacedGrants(r, perms) ELSE role_permissions
    /\ Answer("updateRole")
    /\ UNCHANGED <<memberVars, user_roles, overrideVars, groupVars,
                   permission_audit_logs, pendingRemove>>
  ELSE UNCHANGED vars

\* Variant: the tables reference workspace_roles without ON DELETE CASCADE.
DeleteRoleNoCascade(r) ==
  /\ workspace_roles' = workspace_roles \ RoleRows(r)
  /\ role_permissions' = role_permissions
  /\ user_roles' = user_roles

\* DELETE FROM workspace_roles WHERE id = r, with the ON DELETE CASCADE of
\* role_permissions.role_id and of user_roles.role_id.
CascadeDeleteRole(r) ==
  /\ workspace_roles' = workspace_roles \ RoleRows(r)
  /\ role_permissions' = {g \in role_permissions : g.role_id # r}
  /\ user_roles' = {a \in user_roles : a.role_id # r}

\* DELETE /roles/:roleId: roleCheck (403), then the delete.  No audit row.
deleteRole(by, r) ==
  IF roleCheck(by, r) THEN
    /\ CascadeDeleteRole(r)
    /\ Answer("deleteRole")
    /\ UNCHANGED <<memberVars, overrideVars, groupVars,
                   permission_audit_logs, pendingRemove>>
  ELSE UNCHANGED vars

\* Status of POST /users/:userId/roles: requester owner/admin of
\* body.workspaceId (403); a role_id without a role row violates the
\* foreign key of user_roles (500).
assignRoleStatus(by, w, r) ==
  IF ~IsWsAdmin(w, by) THEN 403
  ELSE IF RoleRows(r) = {} THEN 500
  ELSE 200

\* POST /users/:userId/roles: INSERT ... ON CONFLICT (user_id, workspace_id,
\* role_id) DO NOTHING, then the 'role_assigned' audit row.
assignRole(by, u, w, r) ==
  IF assignRoleStatus(by, w, r) = 200 THEN
    /\ user_roles' = user_roles \cup
         {[user_id |-> u, workspace_id |-> w, role_id |-> r]}
    /\ permission_audit_logs' = Append(permission_audit_logs,
         AuditRow(w, "role_assigned", "user_role", r, u, by, <<>>))
    /\ Answer("assignRole")
    /\ UNCHANGED <<memberVars, workspace_roles, role_permissions,
                   overrideVars, groupVars, pendingRemove>>
  ELSE UNCHANGED vars

\* Variant: the DELETE binds the requester's id instead of :userId.
removeRoleOfRequester(by, u, w, r) ==
  IF IsWsAdmin(w, by) THEN
    /\ user_roles' = user_roles \
         {[user_id |-> by, workspace_id |-> w, role_id |-> r]}
    /\ Answer("removeRole")
    /\ UNCHANGED <<memberVars, workspace_roles, role_permissions,
                   overrideVars, groupVars, permission_audit_logs,
                   pendingRemove>>
  ELSE UNCHANGED vars

\* DELETE /users/:userId/roles/:roleId?workspaceId=: requester owner/admin
\* (403); DELETE FROM user_roles WHERE user_id, role_id, workspace_id.  No
\* audit row.
removeRole(by, u, w, r) ==
  IF IsWsAdmin(w, by) THEN
    /\ user_roles' = user_roles \
         {[user_id |-> u, workspace_id |-> w, role_id |-> r]}
    /\ Answer("removeRole")
    /\ UNCHANGED <<memberVars, workspace_roles, role_permissions,
                   overrideVars, groupVars, permission_audit_logs,
                   pendingRemove>>
  ELSE UNCHANGED vars

\* ------------------------------------------------ workspace-level decision
\* Variant: the join without "rp.role_id = ur.role_id" counts the grants of
\* roles that the user does not hold.
PermissionRowsNoJoin(u, w, code) ==
  {<<a, g>> \in user_roles \X role_permissions :
     /\ a.user_id = u /\ a.workspace_id = w
     /\ g.permission_id = code}

\* The rows that the query of checkPermission counts: user_roles joined
\* with role_permissions on role_id (and with permissions on
\* permission_id), for one user, workspace and code.
PermissionRows(u, w, code) ==
  {<<a, g>> \in user_roles \X role_permissions :
     /\ g.role_id = a.role_id
     /\ a.user_id = u /\ a.workspace_id = w
     /\ g.permission_id = code}

\* checkPermission(permissionCode) of the auth middleware: no membership
\* row answers 403; owner and admin pass at once; anyone else passes iff
\* the count of PermissionRows is positive, and gets 403 otherwise.
checkPermission(u, w, code) ==
  IF RoleOf(w, u) = NoRow THEN "NotMember"
  ELSE IF RoleOf(w, u) \in AdminRoles THEN "RoleBypass"
  ELSE IF Cardinality(PermissionRows(u, w, code)) > 0 THEN "CustomRole"
  ELSE "NoPermission"

\* The query of a decision that throws (connection refused, pool timeout,
\* statement error): none, the membership query, or the grants query.
FailPoints == {"none", "members", "grants"}

\* Variant: the catch block answers 403 like a missing permission.
checkPermissionOutcomeDenies(u, w, code, fail) ==
  IF fail = "members" THEN "NoPermission"
  ELSE IF RoleOf(w, u) = NoRow THEN "NotMember"
  ELSE IF RoleOf(w, u) \in AdminRoles THEN "RoleBypass"
  ELSE IF fail = "grants" THEN "NoPermission"
  ELSE checkPermission(u, w, code)

\* checkPermission with its try/catch: a query that throws is answered 500
\* 'Erreur de vérification des permissions' ("StorageError"); the grants
\* query only runs for a member who is neither owner nor admin.
checkPermissionOutcome(u, w, code, fail) ==
  IF fail = "members" THEN "StorageError"
  ELSE IF RoleOf(w, u) = NoRow THEN "NotMember"
  ELSE IF RoleOf(w, u) \in AdminRoles THEN "RoleBypass"
  ELSE IF fail = "grants" THEN "StorageError"
  ELSE checkPermission(u, w, code)

\* next() is called (Allow); otherwise a 403 is answered (Deny).
Allows(decision) == decision \in {"RoleBypass", "CustomRole"}

\* The audit table has room for one more row (the bound of the model).
AuditRoom(max) == Len(permission_audit_logs) < max

NextRoles ==
  \/ \E by \in Users, w \in Workspaces, name \in RoleNames, perms \in PermArrays :
       AuditRoom(MaxAudit) /\ createRole(by, w, name, perms)
  \/ \E by \in Users, r \in RoleIds, name \in RoleNames \cup {NoRow},
        permsGiven \in BOOLEAN, perms \in PermArrays :
       updateRole(by, r, name, permsGiven, perms)
  \/ \E by \in Users, r \in RoleIds : deleteRole(by, r)
  \/ \E by \in Users, u \in Subjects, w \in Workspaces, r \in RoleIds :
       AuditRoom(MaxAudit) /\ assignRole(by, u, w, r)
  \/ \E by \in Users, u \in Subjects, w \in Workspaces, r \in RoleIds :
       removeRole(by, u, w, r)

SpecRoles == Init /\ [][NextMembersBasic \/ NextRoles]_vars

\* ------------------------------------------------------ resource overrides
\* Rows of boards / sdsi_projects (kept by the board and project routes):
\* both reference their workspace ON DELETE CASCADE, so the board and the
\* project of the model exist exactly while w1 does.
BoardExists(b) == b \in Boards /\ workspaces[BoardWorkspace(b)] # NoRow
ProjectExists(p) == p \in Projects /\ workspaces[ProjectWorkspace(p)] # NoRow

\* The ids that a request may name: those of the model's board and project,
\* and one id each that no row of boards / sdsi_projects ever carries.
BoardIds == Boards \cup {"b0"}
ProjectIds == Projects \cup {"p0"}

\* Rows of board_permissions / project_permissions for one key.
BoardRows(b, u) ==
  {x \in board_permissions : x.board_id = b /\ x.user_id = u}
ProjectRows(p, u) ==
  {x \in project_permissions : x.project_id = p /\ x.user_id = u}

\* bp.permission_level of the LEFT JOIN in the access check: NULL (NoRow)
\* without a row.
BoardLevel(b, u) ==
  IF BoardRows(b, u) = {} THEN NoRow
  ELSE (CHOOSE x \in BoardRows(b, u) : TRUE).permission_level

\* Variant: the board is INNER JOINed with the requester's membership and
\* override, so a missing board is answered like a missing right.
boardAccessInnerJoin(by, b) ==
  IF BoardExists(b)
     /\ (BoardLevel(b, by) = "admin" \/ IsWsAdmin(BoardWorkspace(b), by))
    THEN "Allow"
  ELSE "Deny"

\* Access check of POST /boards/:boardId/users/:userId: 404 without the
\* board; isAdmin (the requester's own board_permissions level is 'admin')
\* or isWsAdmin; otherwise 403.
boardAccess(by, b) ==
  IF ~BoardExists(b) THEN "NotFound"
  ELSE IF BoardLevel(b, by) = "admin" \/ IsWsAdmin(BoardWorkspace(b), by)
    THEN "Allow"
  ELSE "Deny"

\* The board guard inside the handler's try/catch: when the accessCheck
\* query throws, 500 'Erreur' is answered.
boardAccessOutcome(by, b, fails) ==
  IF fails THEN "StorageError" ELSE boardAccess(by, b)

\* Access check of POST /projects/:projectId/users/:userId: 404 without the
\* project; owner/admin of its workspace; otherwise 403.
projectAccess(by, p) ==
  IF ~ProjectExists(p) THEN "NotFound"
  ELSE IF IsWsAdmin(ProjectWorkspace(p), by) THEN "Allow"
  ELSE "Deny"

\* checkBoardAccess of the auth middleware (board, item and column routes):
\* the board joined with the requester's membership in its workspace; any
\* member passes, whatever the level asked for.
checkBoardAccess(by, b) ==
  IF BoardExists(b) /\ RoleOf(BoardWorkspace(b), by) # NoRow THEN "Allow"
  ELSE "Deny"

\* Variant: DO UPDATE SET permission_level = level, granted_by = by.
UpsertBoardPermissionRegrant(b, u, level, by) ==
  {x \in board_permissions : ~(x.board_id = b /\ x.user_id = u)} \cup
    {[board_id |-> b, user_id |-> u, permission_level |-> level,
      granted_by |-> by]}

\* Variant: a plain INSERT into a table without UNIQUE (board_id, user_id).
InsertBoardPermission(b, u, level, by) ==
  board_permissions \cup
    {[board_id |-> b, user_id |-> u, permission_level |-> level,
      granted_by |-> by]}

\* INSERT INTO board_permissions (...) VALUES (b, u, level, by)
\* ON CONFLICT (board_id, user_id) DO UPDATE SET permission_level = level
UpsertBoardPermission(b, u, level, by) ==
  IF BoardRows(b, u) = {} THEN
    board_permissions \cup
      {[board_id |-> b, user_id |-> u, permission_level |-> level,
        granted_by |-> by]}
  ELSE
    {IF x.board_id = b /\ x.user_id = u
       THEN [x EXCEPT !.permission_level = level] ELSE x :
       x \in board_permissions}

\* The same statement on project_permissions.
UpsertProjectPermission(p, u, level, by) ==
  IF ProjectRows(p, u) = {} THEN
    project_permissions \cup
      {[project_id |-> p, user_id |-> u, permission_level |-> level,
        granted_by |-> by]}
  ELSE
    {IF x.project_id = p /\ x.user_id = u
       THEN [x EXCEPT !.permission_level = level] ELSE x :
       x \in project_permissions}

\* POST /boards/:boardId/users/:userId: the access check, then the upsert.
\* No audit row is written.
setBoardPermission(by, b, u, level) ==
  IF boardAccess(by, b) = "Allow" THEN
    /\ board_permissions' = UpsertBoardPermission(b, u, level, by)
    /\ Answer("setBoardPermission")
    /\ UNCHANGED <<memberVars, roleVars, project_permissions, groupVars,
                   permission_audit_logs, pendingRemove>>
  ELSE UNCHANGED vars

\* DELETE /boards/:boardId/users/:userId: authenticate only, then DELETE FROM
\* board_permissions WHERE board_id AND user_id.  No audit row.
removeBoardPermission(by, b, u) ==
  /\ board_permissions' = board_permissions \ BoardRows(b, u)
  /\ Answer("removeBoardPermission")
  /\ UNCHANGED <<memberVars, roleVars, project_permissions, groupVars,
                 permission_audit_logs, pendingRemove>>

\* POST /projects/:projectId/users/:userId: the access check, then the
\* upsert.  No audit row.
setProjectPermission(by, p, u, level) ==
  IF projectAccess(by, p) = "Allow" THEN
    /\ project_permissions' = UpsertProjectPermission(p, u, level, by)
    /\ Answer("setProjectPermission")
    /\ UNCHANGED <<memberVars, roleVars, board_permissions, groupVars,
                   permission_audit_logs, pendingRemove>>
  ELSE UNCHANGED vars

\* DELETE /projects/:projectId/users/:userId: authenticate only, then the
\* DELETE.  No audit row.
removeProjectPermission(by, p, u) ==
  /\ project_permissions' = project_permissions \ ProjectRows(p, u)
  /\ Answer("removeProjectPermission")
  /\ UNCHANGED <<memberVars, roleVars, board_permissions, groupVars,
                 permission_audit_logs, pendingRemove>>

NextOverrides ==
  \/ \E by \in Users, b \in BoardIds, u \in Subjects, level \in Levels :
       setBoardPermission(by, b, u, level)
  \/ \E by \in Users, b \in Boards, u \in Subjects :
       removeBoardPermission(by, b, u)
  \/ \E by \in Users, p \in ProjectIds, u \in Subjects, level \in Levels :
       setProjectPermission(by, p, u, level)
  \/ \E by \in Users, p \in Projects, u \in Subjects :
       removeProjectPermission(by, p, u)

SpecOverrides == Init /\ [][NextMembersBasic \/ NextOverrides]_vars

\* ------------------------------------------------------------ user groups
\* Rows of user_groups with a given id.
GroupRows(g) == {x \in user_groups : x.id = g}

\* uuid_generate_v4() of a new group row (the first id that no row carries).
FreshGroupId ==
  LET free == {i \in 1..Len(GroupIdSeq) : GroupRows(GroupIdSeq[i]) = {}}
  IN GroupIdSeq[CHOOSE i \in free : \A j \in free : i <= j]

\* Status of POST /groups: owner/admin of body.workspaceId (403); UNIQUE
\* (workspace_id, name) makes the INSERT fail with 23505, answered 400.
createGroupStatus(by, w, name) ==
  IF ~IsWsAdmin(w, by) THEN 403
  ELSE IF \E x \in user_groups : x.workspace_id = w /\ x.name = name THEN 400
  ELSE 201

\* POST /groups: in one transaction the group row and one member row per
\* id of memberIds (ON CONFLICT DO NOTHING).  No audit row.
createGroup(by, w, name, memberIds) ==
  IF createGroupStatus(by, w, name) = 201 THEN
    /\ \E o \in GroupIds : GroupRows(o) = {}
    /\ LET id == FreshGroupId IN
       /\ user_groups' = user_groups \cup
            {[id |-> id, workspace_id |-> w, name |-> name]}
       /\ user_group_members' = user_group_members \cup
            {[group_id |-> id, user_id |-> m] : m \in memberIds}
    /\ Answer("createGroup")
    /\ UNCHANGED <<memberVars, roleVars, overrideVars,
                   permission_audit_logs, pendingRemove>>
  ELSE UNCHANGED vars

\* Status of PUT /groups/:groupId with a name in the body: authenticate
\* only; a name that another group of the workspace carries raises 23505,
\* answered 500.
updateGroupStatus(g, name) ==
  IF \E x \in GroupRows(g), y \in user_groups :
       y.id # g /\ y.workspace_id = x.workspace_id /\ y.name = name THEN 500
  ELSE 200

\* PUT /groups/:groupId: UPDATE user_groups SET name WHERE id.  No audit row.
updateGroup(by, g, name) ==
  IF updateGroupStatus(g, name) = 200 THEN
    /\ user_groups' =
         {IF x.id = g THEN [x EXCEPT !.name = name] ELSE x : x \in user_groups}
    /\ Answer("updateGroup")
    /\ UNCHANGED <<memberVars, roleVars, overrideVars, user_group_members,
                   permission_audit_logs, pendingRemove>>
  ELSE UNCHANGED vars

\* Variant: user_group_members references user_groups without ON DELETE
\* CASCADE.
DeleteGroupNoCascade(g) == user_group_members

\* user_group_members after DELETE FROM user_groups WHERE id = g: group_id
\* is declared ON DELETE CASCADE.
CascadeDeleteGroup(g) == {m \in user_group_members : m.group_id # g}

\* board_group_permissions and project_group_permissions (group_id ON
\* DELETE CASCADE): the routes only SELECT from them, no statement of the
\* program inserts a row, so the tables stay empty.
GroupOverrides == {}

\* DELETE /groups/:groupId: authenticate only; DELETE FROM user_groups WHERE
\* id, with the ON DELETE CASCADE of user_group_members.group_id.  No audit
\* row.
deleteGroup(by, g) ==
  /\ user_groups' = user_groups \ GroupRows(g)
  /\ user_group_members' = CascadeDeleteGroup(g)
  /\ Answer("deleteGroup")
  /\ UNCHANGED <<memberVars, roleVars, overrideVars, permission_audit_logs,
                 pendingRemove>>

\* POST /groups/:groupId/members/:userId: authenticate only; INSERT ... ON
\* CONFLICT DO NOTHING (a group_id without a group row violates the foreign
\* key: 500).  No audit row.
addGroupMember(by, g, u) ==
  IF GroupRows(g) # {} THEN
    /\ user_group_members' = user_group_members \cup
         {[group_id |-> g, user_id |-> u]}
    /\ Answer("addGroupMember")
    /\ UNCHANGED <<memberVars, roleVars, overrideVars, user_groups,
                   permission_audit_logs, pendingRemove>>
  ELSE UNCHANGED vars

\* DELETE /groups/:groupId/members/:userId: authenticate only; DELETE FROM
\* user_group_members WHERE group_id AND user_id.  No audit row.
removeGroupMember(by, g, u) ==
  /\ user_group_members' = user_group_members \
       {[group_id |-> g, user_id |-> u]}
  /\ Answer("removeGroupMember")
  /\ UNCHANGED <<memberVars, roleVars, overrideVars, user_groups,
                 permission_audit_logs, pendingRemove>>

NextGroups ==
  \/ \E by \in Users, w \in Workspaces, name \in GroupNames,
        memberIds \in SUBSET Subjects :
       createGroup(by, w, name, memberIds)
  \/ \E by \in Users, g \in GroupIds, name \in GroupNames :
       updateGroup(by, g, name)
  \/ \E by \in Users, g \in GroupIds : deleteGroup(by, g)
  \/ \E by \in Users, g \in GroupIds, u \in Subjects : addGroupMember(by, g, u)
  \/ \E by \in Users, g \in GroupIds, u \in Subjects : removeGroupMember(by, g, u)

SpecGroups == Init /\ [][NextMembersBasic \/ NextGroups]_vars

\* --------------------------------------------- the whole permission engine
\* Every operation of the permission routes in one specification, on one
\* role, one group and the overrides of one user: the requester is the
\* owner u1 or the joiner u2 (admin, member or viewer), the subject is u2.
Actors == {"u1", "u2"}

NextEngine ==
  \/ \E by \in Actors :
       /\ AuditRoom(MaxAudit)
       /\ createRole(by, "w1", "Budget Manager", <<"budget.edit">>)
  \/ \E by \in Actors, perms \in {<<>>, <<"budget.edit">>} :
       updateRole(by, "r1", NoRow, TRUE, perms)
  \/ \E by \in Actors : deleteRole(by, "r1")
  \/ \E by \in Actors : AuditRoom(MaxAudit) /\ assignRole(by, "u2", "w1", "r1")
  \/ \E by \in Actors : removeRole(by, "u2", "w1", "r1")
  \/ \E by \in Actors : createGroup(by, "w1", "Finance", {"u2"})
  \/ \E by \in Actors : updateGroup(by, "g1", "Ops")
  \/ \E by \in Actors : deleteGroup(by, "g1")
  \/ \E by \in Actors : addGroupMember(by, "g1", "u2")
  \/ \E by \in Actors : removeGroupMember(by, "g1", "u2")
  \/ \E by \in Actors, level \in {"edit", "admin"} :
       setBoardPermission(by, "b1", "u2", level)
  \/ \E by \in Actors : removeBoardPermission(by, "b1", "u2")
  \/ \E by \in Actors : setProjectPermission(by, "p1", "u2", "admin")
  \/ \E by \in Actors : removeProjectPermission(by, "p1", "u2")

SpecEngine == Init /\ [][NextMembersBasic \/ NextEngine]_vars

\* ------------------------------------------------- two roles, one subject
\* The owner u1 manages two roles, each created with its own code, and
\* assigns them to u2; the audit table has room for both creations and both
\* assignments.
RoleKinds ==
  {<<"Budget Manager", <<"budget.edit">>>>, <<"Auditor", <<"admin.manage_all">>>>}

NextGrants ==
  \/ \E k \in RoleKinds :
       AuditRoom(MaxAuditGrants) /\ createRole("u1", "w1", k[1], k[2])
  \/ \E r \in RoleIds, perms \in PermArrays :
       updateRole("u1", r, NoRow, TRUE, perms)
  \/ \E r \in RoleIds : deleteRole("u1", r)
  \/ \E r \in RoleIds :
       AuditRoom(MaxAuditGrants) /\ assignRole("u1", "u2", "w1", r)
  \/ \E r \in RoleIds : removeRole("u1", "u2", "w1", r)

SpecGrants == Init /\ [][NextMembersBasic \/ NextGrants]_vars

\* ---------------------------------------------------------------------
\* Storage failures inside the role handlers.  Which statement of a handler
\* throws is an input; last records the answer: the handler's name for a
\* 2xx, the name followed by the status for a 500.

\* Variant: the grants are written without a transaction, so the role row
\* inserted before the failing statement stays.
CreateRoleNotRolledBack(w, name) ==
  workspace_roles \cup {[id |-> FreshRoleId, workspace_id |-> w, name |-> name]}

\* workspace_roles after the catch block of POST /roles ran ROLLBACK on a
\* transaction that had inserted the role row: the row is gone.
CreateRoleRolledBack(w, name) == workspace_roles

\* Variant: the audit INSERT is issued on the pool before the grants are
\* written, so it outlives the ROLLBACK.
AuditBeforeCommit(by, w, name, perms) ==
  Append(permission_audit_logs,
         AuditRow(w, "role_created", "role", FreshRoleId, NoRow, by,
                  <<[name |-> name, permissions |-> perms]>>))

\* permission_audit_logs after a POST /roles that threw before COMMIT: the
\* audit INSERT comes after COMMIT in the try block and is never reached.
AuditOfFailedCreate(by, w, name, perms) == permission_audit_logs

\* POST /roles where a statement between BEGIN and COMMIT throws after the
\* role row was inserted (the lookup or the INSERT of a grant): the catch
\* block runs ROLLBACK and rethrows, the outer catch answers 500.
createRoleGrantFailure(by, w, name, perms) ==
  /\ createRoleStatus(by, w, name) = 201
  /\ \E o \in RoleIds : RoleRows(o) = {}
  /\ Len(perms) > 0
  /\ workspace_roles' = CreateRoleRolledBack(w, name)
  /\ permission_audit_logs' = AuditOfFailedCreate(by, w, name, perms)
  /\ last' = "createRole500Rollback"
  /\ UNCHANGED <<transactions, reads, pendingAdd>>
  /\ UNCHANGED <<memberVars, role_permissions, user_roles, overrideVars,
                 groupVars, pendingRemove>>

\* POST /roles where the audit INSERT throws: it runs after COMMIT but
\* inside the same try block, so ROLLBACK finds no open transaction, the
\* error is rethrown and the outer catch answers 500.  The role row and its
\* grants are committed; no audit row is written.
createRoleAuditFailure(by, w, name, perms) ==
  /\ createRoleStatus(by, w, name) = 201
  /\ \E o \in RoleIds : RoleRows(o) = {}
  /\ LET id == FreshRoleId IN
     /\ workspace_roles' = workspace_roles \cup
          {[id |-> id, workspace_id |-> w, name |-> name]}
     /\ role_permissions' = role_permissions \cup
          {[role_id |-> id, permission_id |-> c] : c \in Catalogued(perms)}
  /\ Answer("createRole500")
  /\ UNCHANGED <<memberVars, user_roles, overrideVars, groupVars,
                 permission_audit_logs, pendingRemove>>

\* POST /users/:userId/roles where the audit INSERT throws: the assignment
\* was written by its own autocommitted statement; the catch answers 500.
assignRoleAuditFailure(by, u, w, r) ==
  /\ assignRoleStatus(by, w, r) = 200
  /\ user_roles' = user_roles \cup
       {[user_id |-> u, workspace_id |-> w, role_id |-> r]}
  /\ Answer("assignRole500")
  /\ UNCHANGED <<memberVars, workspace_roles, role_permissions, overrideVars,
                 groupVars, permission_audit_logs, pendingRemove>>

\* The owner u1 creates, deletes and assigns roles to u2 while statements
\* may fail.
NextFailures ==
  \/ \E k \in RoleKinds :
       AuditRoom(MaxAudit) /\ createRole("u1", "w1", k[1], k[2])
  \/ \E k \in RoleKinds : createRoleGrantFailure("u1", "w1", k[1], k[2])
  \/ \E k \in RoleKinds : createRoleAuditFailure("u1", "w1", k[1], k[2])
  \/ \E r \in RoleIds : deleteRole("u1", r)
  \/ \E r \in RoleIds :
       AuditRoom(MaxAudit) /\ assignRole("u1", "u2", "w1", r)
  \/ \E r \in RoleIds : assignRoleAuditFailure("u1", "u2", "w1", r)
  \/ \E r \in RoleIds : removeRole("u1", "u2", "w1", r)

SpecFailures == Init /\ [][NextMembersBasic \/ NextFailures]_vars

\* ---------------------------------------------------------------------
\* Role names: u1 and u2 create, rename and delete roles.
NextNames ==
  \/ \E by \in Actors, name \in RoleNames :
       AuditRoom(MaxAudit) /\ createRole(by, "w1", name, <<>>)
  \/ \E by \in Actors, r \in RoleIds, name \in RoleNames :
       updateRole(by, r, name, FALSE, <<>>)
  \/ \E by \in Actors, r \in RoleIds : deleteRole(by, r)

SpecNames == Init /\ [][NextMembersBasic \/ NextNames]_vars

\* ---------------------------------------------------------------------
\* PUT /roles/:roleId as a transaction under READ COMMITTED (no isolation
\* level is set, so PostgreSQL's default applies).  role_permissions holds
\* the committed rows.  A transaction in flight is a record [id, role,
\* perms, phase, seen, deleted]: seen are the rows in the snapshot of its
\* DELETE statement, deleted the rows it has deleted and keeps locked until
\* it ends.  The body carries only `permissions`, so no UPDATE of the role
\* row orders the transactions.
TxIds == {"t1", "t2"}

\* The permission arrays that the concurrent requests carry.
UpdateSets == {<<"budget.edit">>, <<"admin.manage_all">>}

\* The committed grants of role r.
RoleGrants(r) == {g \in role_permissions : g.role_id = r}

\* Rows that transactions other than t have deleted without having ended.
LockedByOthers(t) ==
  UNION {x.deleted : x \in {y \in transactions :
                              y.id # t.id /\ y.phase = "inserting"}}

\* The rows that the INSERT statements of t write.
InsertedGrants(t) ==
  {[role_id |-> t.role, permission_id |-> c] : c \in Catalogued(t.perms)}

\* roleCheck passes, BEGIN, and the DELETE statement takes its snapshot of
\* the committed grants of the role.
updateRoleBegin(id, by, r, perms) ==
  /\ \A x \in transactions : x.id # id
  /\ updateRoleStatus(by, r, NoRow, TRUE, perms) = 200
  /\ transactions' = transactions \cup
       {[id |-> id, role |-> r, perms |-> perms, phase |-> "deleting",
         seen |-> RoleGrants(r), deleted |-> {}]}
  /\ UNCHANGED <<stores, pendingRemove, pendingAdd, reads, last>>

\* The DELETE statement runs: it waits while a row of its snapshot is
\* locked by another transaction; it deletes the rows of its snapshot that
\* are still there and never sees rows committed after its snapshot.
updateRoleDelete(t) ==
  /\ t \in transactions
  /\ t.phase = "deleting"
  /\ t.seen \cap LockedByOthers(t) = {}
  /\ transactions' = (transactions \ {t}) \cup
       {[t EXCEPT !.phase = "inserting",
                  !.deleted = t.seen \cap role_permissions]}
  /\ UNCHANGED <<stores, pendingRemove, pendingAdd, reads, last>>

\* The INSERT statements and COMMIT: the deleted rows go, the new rows
\* appear; rows that this transaction deleted leave the snapshots of the
\* statements that waited for them.
updateRoleCommit(t) ==
  /\ t \in transactions
  /\ t.phase = "inserting"
  /\ InsertedGrants(t) \cap LockedByOthers(t) = {}
  /\ InsertedGrants(t) \cap (role_permissions \ t.deleted) = {}
  /\ role_permissions' = (role_permissions \ t.deleted) \cup InsertedGrants(t)
  /\ transactions' =
       {[x EXCEPT !.seen = x.seen \ t.deleted] : x \in transactions \ {t}}
       \cup {[t EXCEPT !.phase = "committed", !.deleted = {}]}
  /\ last' = "updateRole"
  /\ reads' = NoteCommit(reads)
  /\ UNCHANGED <<memberVars, workspace_roles, user_roles, overrideVars,
                 groupVars, permission_audit_logs, pendingRemove, pendingAdd>>

\* An INSERT meets a committed row with the same (role_id, permission_id):
\* 23505, ROLLBACK, answered 500; the deleted rows are back.
updateRoleConflict(t) ==
  /\ t \in transactions
  /\ t.phase = "inserting"
  /\ InsertedGrants(t) \cap LockedByOthers(t) = {}
  /\ InsertedGrants(t) \cap (role_permissions \ t.deleted) # {}
  /\ transactions' = (transactions \ {t}) \cup
       {[t EXCEPT !.phase = "rolledback", !.deleted = {}]}
  /\ last' = "updateRole500"
  /\ UNCHANGED <<stores, pendingRemove, pendingAdd, reads>>

\* The owner u1 creates roles and sends two PUT requests that may overlap.
NextConcurrentUpdates ==
  \/ \E k \in RoleKinds :
       AuditRoom(MaxAudit) /\ createRole("u1", "w1", k[1], k[2])
  \/ \E id \in TxIds, r \in RoleIds, perms \in UpdateSets :
       updateRoleBegin(id, "u1", r, perms)
  \/ \E t \in transactions : updateRoleDelete(t)
  \/ \E t \in transactions : updateRoleCommit(t)
  \/ \E t \in transactions : updateRoleConflict(t)

SpecConcurrentUpdates ==
  Init /\ [][NextMembersBasic \/ NextConcurrentUpdates]_vars

\* ---------------------------------------------------------------------
\* Permission reads made of several queries.  Each db.query is a statement
\* of its own on the pool (autocommit, READ COMMITTED), so other handlers
\* may commit between two queries of one read.  A read is a record [kind,
\* user, ws, code, phase, seen, pre, commits, answer]: seen is what its
\* first queries returned, pre the complete answer of the state in which
\* it started, commits the number of commits inside its span, answer what
\* the caller gets.  One read is followed at a time.

\* The answer of a decision.
DecisionAnswer(d) == [decision |-> d, roles |-> {}, permissions |-> {}]

\* Variant: the membership of a user is kept from the previous read of the
\* same user and workspace instead of being queried.
membershipQueryCached(u, w) ==
  IF \E rd \in reads : rd.kind = "check" /\ rd.user = u /\ rd.ws = w
  THEN (CHOOSE rd \in reads : rd.kind = "check" /\ rd.user = u /\ rd.ws = w).seen
  ELSE RoleOf(w, u)

\* First query of checkPermission: SELECT role FROM workspace_members.
membershipQuery(u, w) == RoleOf(w, u)

\* checkPermission up to its first query: without a row 403, for owner and
\* admin next(); otherwise the second query is still to come.
checkPermissionBegin(u, w, code) ==
  /\ \A rd \in reads : rd.phase = "done"
  /\ LET role == membershipQuery(u, w)
         rd == [kind |-> "check", user |-> u, ws |-> w, code |-> code,
                seen |-> role, pre |-> DecisionAnswer(checkPermission(u, w, code)),
                commits |-> 0, phase |-> "reading", answer |-> DecisionAnswer(NoRow)]
     IN reads' =
          IF role = NoRow
            THEN {[rd EXCEPT !.phase = "done",
                             !.answer = DecisionAnswer("NotMember")]}
          ELSE IF role \in AdminRoles
            THEN {[rd EXCEPT !.phase = "done",
                             !.answer = DecisionAnswer("RoleBypass")]}
          ELSE {rd}
  /\ last' = "checkPermission"
  /\ UNCHANGED <<stores, pendingRemove, pendingAdd, transactions>>

\* Second query of checkPermission: the COUNT over user_roles joined with
\* role_permissions and permissions; next() when positive, else 403.
checkPermissionEnd(rd) ==
  /\ rd \in reads
  /\ rd.kind = "check" /\ rd.phase = "reading"
  /\ reads' = (reads \ {rd}) \cup
       {[rd EXCEPT !.phase = "done",
                   !.answer = DecisionAnswer(
                     IF Cardinality(PermissionRows(rd.user, rd.ws, rd.code)) > 0
                     THEN "CustomRole" ELSE "NoPermission")]}
  /\ last' = "checkPermission"
  /\ UNCHANGED <<stores, pendingRemove, pendingAdd, transactions>>

\* rolesResult of GET /users/:userId/workspace/:workspaceId: the assigned
\* roles (user_roles JOIN workspace_roles).
rolesResult(u, w) ==
  {a.role_id : a \in {x \in user_roles :
                        /\ x.user_id = u /\ x.workspace_id = w
                        /\ RoleRows(x.role_id) # {}}}

\* permissionsResult of the same handler: the distinct codes over
\* permissions JOIN role_permissions JOIN user_roles.
permissionsResult(u, w) ==
  {g.permission_id : g \in {h \in role_permissions :
     \E a \in user_roles :
       a.user_id = u /\ a.workspace_id = w /\ a.role_id = h.role_id}}

\* What the handler answers when all its queries see one state.
userPermissionsAnswer(u, w) ==
  IF RoleOf(w, u) = NoRow THEN DecisionAnswer("NotFound")
  ELSE [decision |-> "OK", roles |-> rolesResult(u, w),
        permissions |-> permissionsResult(u, w)]

\* GET /users/:userId/workspace/:workspaceId up to rolesResult:
\* checkWorkspaceAccess lets members through, userResult answers 404 for a
\* user who is not a member, then the assigned roles are read.
userPermissionsBegin(by, u, w) ==
  /\ \A rd \in reads : rd.phase = "done"
  /\ RoleOf(w, by) # NoRow
  /\ LET rd == [kind |-> "permissions", user |-> u, ws |-> w, code |-> NoRow,
                seen |-> rolesResult(u, w), pre |-> userPermissionsAnswer(u, w),
                commits |-> 0, phase |-> "reading", answer |-> DecisionAnswer(NoRow)]
     IN reads' =
          IF RoleOf(w, u) = NoRow
            THEN {[rd EXCEPT !.phase = "done",
                             !.answer = DecisionAnswer("NotFound")]}
          ELSE {rd}
  /\ last' = "getUserPermissions"
  /\ UNCHANGED <<stores, pendingRemove, pendingAdd, transactions>>

\* The same handler from permissionsResult on: the codes are read by a
\* later query and put next to the roles read before.
userPermissionsEnd(rd) ==
  /\ rd \in reads
  /\ rd.kind = "permissions" /\ rd.phase = "reading"
  /\ reads' = (reads \ {rd}) \cup
       {[rd EXCEPT !.phase = "done",
                   !.answer = [decision |-> "OK", roles |-> rd.seen,
                               permissions |-> permissionsResult(rd.user, rd.ws)]]}
  /\ last' = "getUserPermissions"
  /\ UNCHANGED <<stores, pendingRemove, pendingAdd, transactions>>

\* ---------------------------------------------------------------------
\* Grant replacement: u1 creates roles and sends PUT /roles/:roleId with
\* and without a permissions array.
NextReplace ==
  \/ \E k \in RoleKinds :
       AuditRoom(MaxAudit) /\ createRole("u1", "w1", k[1], k[2])
  \/ \E r \in RoleIds, permsGiven \in BOOLEAN, perms \in PermArrays :
       updateRole("u1", r, NoRow, permsGiven, perms)

SpecReplace == Init /\ [][NextMembersBasic \/ NextReplace]_vars

\* ---------------------------------------------------------------------
\* Concurrent joins: add-member requests of both routes for u2 and u3 are
\* in flight while others of them, and the one-step POST
\* /:workspaceId/members of the scene, store their rows.
NextJoin ==
  \/ \E by \in Users, u \in Subjects, role \in AssignableRoles,
         route \in AddRoutes :
       addRequestBegin(by, "w1", u, role, route)
  \/ \E p \in pendingAdd : addRequestInsert(p)
  \/ \E p \in pendingAdd : addRequestConflict(p)

SpecJoin == Init /\ [][NextMembersBasic \/ NextJoin]_vars

\* ---------------------------------------------------------------------
\* Leaving and joining again: the owner u1 manages roles and assigns them
\* to u2 while u2 is a member, removes u2 (DELETE member of the member
\* routes) and adds u2 again.
NextRejoin ==
  \/ \E k \in RoleKinds :
       AuditRoom(MaxAudit) /\ createRole("u1", "w1", k[1], k[2])
  \/ \E r \in RoleIds :
       /\ MemberRows("w1", "u2") # {}
       /\ AuditRoom(MaxAudit)
       /\ assignRole("u1", "u2", "w1", r)
  \/ \E r \in RoleIds : removeRole("u1", "u2", "w1", r)
  \/ memberRoutesRemoveBegin("u1", "w1", "u2")
  \/ \E p \in pendingRemove : removeMemberCommit(p)

SpecRejoin == Init /\ [][NextMembersBasic \/ NextRejoin]_vars

\* ---------------------------------------------------------------------
\* Workspace deletion.

\* Status of DELETE /:workspaceId: checkWorkspaceAccess answers 403 to a
\* non-member, the handler answers 403 to every role but owner.
deleteWorkspaceStatus(by, w) ==
  IF RoleOf(w, by) = NoRow THEN 403
  ELSE IF RoleOf(w, by) # "owner" THEN 403
  ELSE 200

\* permission_audit_logs after DELETE FROM workspaces WHERE id = w: the
\* column workspace_id is declared ON DELETE CASCADE.
AuditLogsAfterWorkspaceDelete(w) ==
  SelectSeq(permission_audit_logs, LAMBDA e : e.workspace_id # w)

\* DELETE /:workspaceId: DELETE FROM workspaces, which cascades to the
\* workspace's members, roles (and their grants), role assignments, groups
\* (and their members), boards and projects (and their overrides) and audit
\* rows.
deleteWorkspace(by, w) ==
  IF deleteWorkspaceStatus(by, w) = 200 THEN
    /\ workspaces' = [workspaces EXCEPT ![w] = NoRow]
    /\ workspace_members' = {m \in workspace_members : m.workspace_id # w}
    /\ workspace_roles' = {x \in workspace_roles : x.workspace_id # w}
    /\ role_permissions' =
         {g \in role_permissions :
            \E x \in workspace_roles : x.id = g.role_id /\ x.workspace_id # w}
    /\ user_roles' = {a \in user_roles : a.workspace_id # w}
    /\ user_groups' = {x \in user_groups : x.workspace_id # w}
    /\ user_group_members' =
         {m \in user_group_members :
            \E x \in user_groups : x.id = m.group_id /\ x.workspace_id # w}
    /\ board_permissions' =
         {x \in board_permissions : BoardWorkspace(x.board_id) # w}
    /\ project_permissions' =
         {x \in project_permissions : ProjectWorkspace(x.project_id) # w}
    /\ permission_audit_logs' = AuditLogsAfterWorkspaceDelete(w)
    /\ Answer("deleteWorkspace")
    /\ UNCHANGED pendingRemove
  ELSE UNCHANGED vars

\* The owner u1 manages roles of w1 and may delete the workspace; u2 tries
\* the deletion too.
NextLifecycle ==
  \/ \E k \in RoleKinds :
       AuditRoom(MaxAudit) /\ createRole("u1", "w1", k[1], k[2])
  \/ \E r \in RoleIds : deleteRole("u1", r)
  \/ \E r \in RoleIds :
       AuditRoom(MaxAudit) /\ assignRole("u1", "u2", "w1", r)
  \/ \E r \in RoleIds : removeRole("u1", "u2", "w1", r)
  \/ \E by \in Actors, w \in Workspaces : deleteWorkspace(by, w)

SpecLifecycle == Init /\ [][NextMembersBasic \/ NextLifecycle]_vars

\* The owner u1 manages the roles of u2 and may delete the workspace while
\* u2's permission "budget.edit" is checked and u2's permissions are listed.
NextReads ==
  \/ \E k \in RoleKinds :
       AuditRoom(MaxAudit) /\ createRole("u1", "w1", k[1], k[2])
  \/ \E r \in RoleIds : deleteRole("u1", r)
  \/ \E r \in RoleIds :
       AuditRoom(MaxAudit) /\ assignRole("u1", "u2", "w1", r)
  \/ \E r \in RoleIds : removeRole("u1", "u2", "w1", r)
  \/ deleteWorkspace("u1", "w1")
  \/ checkPermissionBegin("u2", "w1", "budget.edit")
  \/ \E rd \in reads : checkPermissionEnd(rd)
  \/ userPermissionsBegin("u1", "u2", "w1")
  \/ \E rd \in reads : userPermissionsEnd(rd)

SpecReads == Init /\ [][NextMembersBasic \/ NextReads]_vars

\* ================================================================== claims
\* C1: every principal whose membership role is owner or admin is allowed
\* by the workspace-level decision for every permission code, and by the
\* resource-level checks (the board guard, the project guard and the board
\* access middleware) for every board and project of the workspace, whatever
\* roles, groups and overrides exist.
OwnerAdminAlwaysAllowed ==
  \A u \in Users, w \in Workspaces :
    RoleOf(w, u) \in {"owner", "admin"} =>
      /\ \A code \in RequestCodes : Allows(checkPermission(u, w, code))
      /\ \A b \in Boards :
           BoardWorkspace(b) = w =>
             boardAccess(u, b) = "Allow" /\ checkBoardAccess(u, b) = "Allow"
      /\ \A p \in Projects :
           ProjectWorkspace(p) = w => projectAccess(u, p) = "Allow"

\* An admin who holds no role grant, whose own board override is only
\* 'edit', and who has no project override, while a role and a group exist.
AdminWithLowerOverride ==
  /\ RoleOf("w1", "u2") = "admin"
  /\ BoardLevel("b1", "u2") = "edit"
  /\ ProjectRows("p1", "u2") = {}
  /\ workspace_roles # {} /\ user_roles = {}
  /\ user_groups # {}

\* The codes of the roles assigned to (u, w): the union, over the
\* assignments, of the codes granted to the assigned role.
AssignedCodes(u, w) ==
  UNION {{g.permission_id : g \in {x \in role_permissions : x.role_id = a.role_id}} :
           a \in {x \in user_roles : x.user_id = u /\ x.workspace_id = w}}

\* The reference decision of the workspace level.
DecideWorkspaceReference(u, w, code) ==
  IF \A m \in workspace_members : ~(m.workspace_id = w /\ m.user_id = u)
    THEN "NotMember"
  ELSE IF \E m \in workspace_members :
            m.workspace_id = w /\ m.user_id = u /\ m.role \in {"owner", "admin"}
    THEN "RoleBypass"
  ELSE IF code \in AssignedCodes(u, w) THEN "CustomRole"
  ELSE "NoPermission"

\* C2: the workspace-level decision equals the reference function (NotMember
\* without a membership row, else RoleBypass for owner and admin, else
\* CustomRole when the code is in the union of the codes of the assigned
\* roles, else NoPermission); a plain member without any assigned role is
\* denied "admin.manage_all".
DecideWorkspaceMatchesReference ==
  /\ \A u \in Users, w \in Workspaces, code \in RequestCodes :
       checkPermission(u, w, code) = DecideWorkspaceReference(u, w, code)
  /\ \A u \in Users, w \in Workspaces :
       (RoleOf(w, u) = "member" /\ \A a \in user_roles : a.user_id # u) =>
         ~Allows(checkPermission(u, w, "admin.manage_all"))

\* A member holding two roles, one of which alone grants "admin.manage_all",
\* and a non-member who holds an assignment too.
MemberWithTwoRoles ==
  /\ RoleOf("w1", "u2") = "member"
  /\ Cardinality({a \in user_roles : a.user_id = "u2"}) = 2
  /\ checkPermission("u2", "w1", "admin.manage_all") = "CustomRole"
  /\ checkPermission("u2", "w1", "budget.edit") = "NoPermission"
  /\ checkPermission("u3", "w1", "budget.edit") = "NotMember"

\* Rank of a level on the order none < view < edit < admin.
LevelRank(level) ==
  CASE level = "view" -> 1
    [] level = "edit" -> 2
    [] level = "admin" -> 3
    [] OTHER -> 0

\* directLevel of a user on a project: the level of the user's own
\* project_permissions row, "none" (NoRow) without one.
ProjectLevel(p, u) ==
  IF ProjectRows(p, u) = {} THEN NoRow
  ELSE (CHOOSE x \in ProjectRows(p, u) : TRUE).permission_level

\* groupLevel: board_group_permissions and project_group_permissions are
\* created by the migration and written by no route, so no group of a user
\* ever carries an override: the maximum over the empty set, "none".
GroupLevel(kind, id, u) == NoRow

\* max(directLevel, groupLevel) as a rank.
EffectiveRank(kind, id, u) ==
  LET direct == IF kind = "board" THEN BoardLevel(id, u) ELSE ProjectLevel(id, u)
      d == LevelRank(direct)
      g == LevelRank(GroupLevel(kind, id, u))
  IN IF d >= g THEN d ELSE g

\* C3: for a member who is neither owner nor admin, the resource-level
\* decision allows iff max(directLevel, groupLevel) >= required on the order
\* view < edit < admin.  Stated for the level that the guards of the board
\* and project permission routes decide, "admin".
ResourceDecisionFollowsEffectiveLevel ==
  \A u \in Users :
    RoleOf("w1", u) \in {"member", "viewer"} =>
      /\ \A b \in Boards :
           (boardAccess(u, b) = "Allow") <=>
             (EffectiveRank("board", b, u) >= LevelRank("admin"))
      /\ \A p \in Projects :
           (projectAccess(u, p) = "Allow") <=>
             (EffectiveRank("project", p, u) >= LevelRank("admin"))

\* The role r grants "budget.edit".
GrantsBudgetEdit(r) ==
  [role_id |-> r, permission_id |-> "budget.edit"] \in role_permissions

\* No role other than r that is assigned to (u, w) grants "budget.edit".
NoOtherBudgetRole(u, w, r) ==
  \A a \in user_roles :
    (a.user_id = u /\ a.workspace_id = w /\ a.role_id # r) =>
      ~GrantsBudgetEdit(a.role_id)

\* C4: for a principal X whose membership role in W is member and a role R
\* of W that grants "budget.edit": the state after a committed AssignRole(X,
\* W, R) allows X "budget.edit", and the state after a committed
\* RemoveRole(X, W, R) denies it, provided no other assigned role grants it.
AssignAllowsRemoveDenies ==
  [][last' \in {"assignRole", "removeRole"} =>
       \A X \in Users, W \in Workspaces, R \in RoleIds :
         (/\ RoleOf(W, X) = "member"
          /\ RoleRows(R) # {} /\ RoleWorkspace(R) = W
          /\ GrantsBudgetEdit(R)) =>
           /\ (last' = "assignRole" /\ \E by \in Users : assignRole(by, X, W, R)) =>
                Allows(checkPermission(X, W, "budget.edit"))'
           /\ (/\ last' = "removeRole"
               /\ NoOtherBudgetRole(X, W, R)
               /\ \E by \in Users : removeRole(by, X, W, R)) =>
                ~Allows(checkPermission(X, W, "budget.edit"))']_vars

\* The member u2 was assigned the role that grants "budget.edit", the
\* assignment has just been removed while another role stays assigned, and
\* the code is denied.
BudgetRoleRemoved ==
  /\ last = "removeRole"
  /\ RoleOf("w1", "u2") = "member"
  /\ \E R \in RoleIds :
       /\ GrantsBudgetEdit(R)
       /\ \E i \in 1..Len(permission_audit_logs) :
            /\ permission_audit_logs[i].action = "role_assigned"
            /\ permission_audit_logs[i].entity_id = R
            /\ permission_audit_logs[i].target_user_id = "u2"
       /\ [user_id |-> "u2", workspace_id |-> "w1", role_id |-> R] \notin user_roles
  /\ \E a \in user_roles : a.user_id = "u2"
  /\ checkPermission("u2", "w1", "budget.edit") = "NoPermission"

\* A request of `by` to one of the twelve mutating operations of the
\* permission routes, with any arguments.
PermissionMutation(by) ==
  \/ \E w \in Workspaces, name \in RoleNames, perms \in PermArrays :
       createRole(by, w, name, perms)
  \/ \E r \in RoleIds, name \in RoleNames \cup {NoRow}, given \in BOOLEAN,
        perms \in PermArrays :
       updateRole(by, r, name, given, perms)
  \/ \E r \in RoleIds : deleteRole(by, r)
  \/ \E u \in Users, w \in Workspaces, r \in RoleIds : assignRole(by, u, w, r)
  \/ \E u \in Users, w \in Workspaces, r \in RoleIds : removeRole(by, u, w, r)
  \/ \E w \in Workspaces, name \in GroupNames, ids \in SUBSET Users :
       createGroup(by, w, name, ids)
  \/ \E g \in GroupIds, name \in GroupNames : updateGroup(by, g, name)
  \/ \E g \in GroupIds : deleteGroup(by, g)
  \/ \E g \in GroupIds, u \in Users : addGroupMember(by, g, u)
  \/ \E g \in GroupIds, u \in Users : removeGroupMember(by, g, u)
  \/ \E b \in Boards, u \in Users, level \in Levels :
       setBoardPermission(by, b, u, level)
  \/ \E b \in Boards, u \in Users : removeBoardPermission(by, b, u)
  \/ \E p \in Projects, u \in Users, level \in Levels :
       setProjectPermission(by, p, u, level)
  \/ \E p \in Projects, u \in Users : removeProjectPermission(by, p, u)

\* C5: a principal who is neither owner nor admin of the workspace cannot
\* change any role, grant, assignment, group, group membership or override
\* of it: every such request of theirs leaves all stores unchanged.
NonAdminMutationsRejected ==
  [][\A by \in Users :
       (~(RoleOf("w1", by) \in {"owner", "admin"}) /\ PermissionMutation(by)) =>
         UNCHANGED stores]_vars

\* C6: every workspace has exactly one membership whose role is owner.
ExactlyOneOwner ==
  \A w \in Workspaces :
    workspaces[w] # NoRow =>
      Cardinality({m \in workspace_members :
                     m.workspace_id = w /\ m.role = "owner"}) = 1

\* C7: the membership of the principal who currently holds the owner role
\* is never removed: no step takes a principal from role owner to no
\* membership row.
OwnerMembershipNeverRemoved ==
  [][\A w \in Workspaces, u \in Users :
       RoleOf(w, u) = "owner" => RoleOf(w, u)' # NoRow]_vars

\* No role other than r that is assigned to (u, w) grants the code.
NoOtherRoleGrants(u, w, r, code) ==
  \A a \in user_roles :
    (a.user_id = u /\ a.workspace_id = w /\ a.role_id # r) =>
      [role_id |-> a.role_id, permission_id |-> code] \notin role_permissions

\* C8: after a committed DeleteRole(R) no assignment and no grant refers to
\* R, and every member or viewer whose only source of a code was R is denied
\* that code.
DeleteRoleCascades ==
  [][last' = "deleteRole" =>
       \A R \in RoleIds, W \in Workspaces :
         (/\ RoleRows(R) # {} /\ RoleWorkspace(R) = W
          /\ \E by \in Users : deleteRole(by, R)) =>
           /\ \A a \in user_roles' : a.role_id # R
           /\ \A g \in role_permissions' : g.role_id # R
           /\ \A u \in Users, code \in PermissionCodes :
                (/\ RoleOf(W, u) \in {"member", "viewer"}
                 /\ NoOtherRoleGrants(u, W, R, code)) =>
                  ~Allows(checkPermission(u, W, code))']_vars

\* The role that granted "budget.edit" and was assigned to the member u2 has
\* just been deleted, another role is still assigned to u2, and u2 is denied
\* the code.
AssignedRoleDeleted ==
  /\ last = "deleteRole"
  /\ RoleOf("w1", "u2") = "member"
  /\ \E R \in RoleIds :
       /\ RoleRows(R) = {}
       /\ \E i, j \in 1..Len(permission_audit_logs) :
            /\ i < j
            /\ permission_audit_logs[i].action = "role_created"
            /\ permission_audit_logs[i].entity_id = R
            /\ permission_audit_logs[i].new_value[1].permissions = <<"budget.edit">>
            /\ permission_audit_logs[j].action = "role_assigned"
            /\ permission_audit_logs[j].entity_id = R
            /\ permission_audit_logs[j].target_user_id = "u2"
  /\ \E a \in user_roles : a.user_id = "u2"
  /\ checkPermission("u2", "w1", "budget.edit") = "NoPermission"

\* A committed change of a role, of an override or of a group's members.
AuditedChange ==
  /\ \E by \in Users :
       \/ \E w \in Workspaces, name \in RoleNames, perms \in PermArrays :
            createRole(by, w, name, perms)
       \/ \E r \in RoleIds, name \in RoleNames \cup {NoRow}, given \in BOOLEAN,
             perms \in PermArrays :
            updateRole(by, r, name, given, perms)
       \/ \E r \in RoleIds : deleteRole(by, r)
       \/ \E b \in Boards, u \in Users, level \in Levels :
            setBoardPermission(by, b, u, level)
       \/ \E b \in Boards, u \in Users : removeBoardPermission(by, b, u)
       \/ \E p \in Projects, u \in Users, level \in Levels :
            setProjectPermission(by, p, u, level)
       \/ \E p \in Projects, u \in Users : removeProjectPermission(by, p, u)
       \/ \E g \in GroupIds, u \in Users : addGroupMember(by, g, u)
       \/ \E g \in GroupIds, u \in Users : removeGroupMember(by, g, u)
  /\ ~UNCHANGED <<roleVars, overrideVars, groupVars>>

\* C9: every committed CreateRole, UpdateRole, DeleteRole, SetOverride,
\* RemoveOverride and group-membership change appends exactly one audit
\* entry, so the number of entries equals the number of committed changes.
EveryChangeAudited ==
  [][AuditedChange =>
       Len(permission_audit_logs') = Len(permission_audit_logs) + 1]_vars

\* C10: SetOverride on a key that already carries the requested level
\* leaves the override store as it is, with exactly one row for the key, and
\* appends no audit entry.
SetOverrideIdempotent ==
  [][/\ last' = "setBoardPermission" =>
          \A b \in Boards, u \in Users, level \in Levels :
            (/\ BoardLevel(b, u) = level
             /\ \E by \in Users :
                  boardAccess(by, b) = "Allow" /\ setBoardPermission(by, b, u, level)) =>
              /\ board_permissions' = board_permissions
              /\ Cardinality(BoardRows(b, u)') = 1
              /\ permission_audit_logs' = permission_audit_logs
     /\ last' = "setProjectPermission" =>
          \A p \in Projects, u \in Users, level \in Levels :
            (/\ ProjectLevel(p, u) = level
             /\ \E by \in Users :
                  projectAccess(by, p) = "Allow" /\ setProjectPermission(by, p, u, level)) =>
              /\ project_permissions' = project_permissions
              /\ Cardinality(ProjectRows(p, u)') = 1
              /\ permission_audit_logs' = permission_audit_logs]_vars

\* The state after SetOverride(board b1, u2, "edit") by the owner, in which
\* the admin u2 may call it again: the repeated call answers 200 and leaves
\* this very state.
OverrideSetOnce ==
  /\ last = "setBoardPermission"
  /\ board_permissions =
       {[board_id |-> "b1", user_id |-> "u2", permission_level |-> "edit",
         granted_by |-> "u1"]}
  /\ boardAccess("u2", "b1") = "Allow"

AllowOutcomes == {"RoleBypass", "CustomRole", "Allow"}
DenyOutcomes == {"NotMember", "NoPermission", "Deny"}

CommitsRoleChange ==
  \/ \E x \in workspace_roles' : x \notin workspace_roles
  \/ \E a \in user_roles' : a \notin user_roles

\* C13: a CreateRole or AssignRole whose change is committed reports
\* success to its caller, also when the audit write fails afterwards, and
\* the committed change stays in place.
AuditFailureStillSucceeds ==
  [][CommitsRoleChange => last' \in {"createRole", "assignRole"}]_vars

\* The codes granted to the role row x.
GrantedCodes(x) ==
  {g.permission_id : g \in {h \in role_permissions : h.role_id = x.id}}

\* C20: CreateRole is all-or-nothing: every role row is there together with
\* all the grants it was requested with, no grant is there without its role
\* row, and a CreateRole that fails while inserting a grant leaves no role
\* row behind.
CreateRoleAllOrNothing ==
  /\ \A g \in role_permissions : RoleRows(g.role_id) # {}
  /\ \A x \in workspace_roles : \A k \in RoleKinds :
       k[1] = x.name => GrantedCodes(x) = Catalogued(k[2])

\* A CreateRole has just failed on a grant and was rolled back, next to a
\* role that an earlier CreateRole committed with its grant.
CreateRoleFailedOnGrant ==
  /\ last = "createRole500Rollback"
  /\ Cardinality(workspace_roles) = 1
  /\ \A x \in workspace_roles : GrantedCodes(x) # {}

\* C14: the audit log is append-only: every entry of a state is present at
\* the same place with the same content in the next state, whatever the
\* operation (role, member or workspace deletion included).
AuditLogAppendOnly ==
  [][\A i \in 1..Len(permission_audit_logs) :
       /\ i <= Len(permission_audit_logs')
       /\ permission_audit_logs'[i] = permission_audit_logs[i]]_vars

\* No two role rows of a workspace carry the same name.
RoleNamesUnique ==
  \A x, y \in workspace_roles :
    (x.workspace_id = y.workspace_id /\ x.name = y.name) => x.id = y.id

\* A CreateRole by an owner or admin under a name that a role of the
\* workspace carries is answered 400 (DuplicateRoleName).
DuplicateNameRejected ==
  \A x \in workspace_roles, by \in Users :
    IsWsAdmin(x.workspace_id, by) =>
      createRoleStatus(by, x.workspace_id, x.name) = 400

\* A step adds a role row only under a name that no role of the workspace
\* carried, and then as a CreateRole; while a name is taken, no step adds a
\* row, a grant or an audit entry for it.
OnlyFreshNamesCreated ==
  \A x \in workspace_roles' :
    (\A y \in workspace_roles : y.id # x.id) =>
      /\ last' = "createRole"
      /\ \A y \in workspace_roles :
           ~(y.workspace_id = x.workspace_id /\ y.name = x.name)

\* C15: role names are unique per workspace in every reachable state, after
\* any sequence of CreateRole and UpdateRole (renames included); a
\* CreateRole under an existing name is rejected as a duplicate and adds no
\* role.
RoleNamesStayUnique ==
  /\ [](RoleNamesUnique /\ DuplicateNameRejected)
  /\ [][OnlyFreshNamesCreated]_vars

\* Both audit rows record a creation as "Budget Manager", and two roles
\* with two names exist: the first role was renamed, which freed the name
\* for the second; a further CreateRole under either name is rejected.
RenamedRoleFreedName ==
  /\ Len(permission_audit_logs) = 2
  /\ \A i \in 1..2 :
       permission_audit_logs[i].new_value[1].name = "Budget Manager"
  /\ Cardinality(workspace_roles) = 2
  /\ {x.name : x \in workspace_roles} = RoleNames
  /\ \A n \in RoleNames : createRoleStatus("u1", "w1", n) = 400

\* C16: when two UpdateRole calls on the same role have both completed, the
\* role's grant set is exactly the set of one of them (last-writer-wins on
\* the whole set), never the union or another mixture.
ConcurrentUpdateLastWriterWins ==
  \A r \in RoleIds :
    LET done == {t \in transactions : t.role = r /\ t.phase = "committed"}
    IN Cardinality(done) = 2 =>
         \E t \in done : RoleGrants(r) = InsertedGrants(t)

\* The complete answer that the current state gives to the request of rd.
CompleteAnswer(rd) ==
  IF rd.kind = "check"
  THEN DecisionAnswer(DecideWorkspaceReference(rd.user, rd.ws, rd.code))
  ELSE userPermissionsAnswer(rd.user, rd.ws)

\* C17: a read that overlaps one administrative mutation answers what the
\* complete state before it or the complete state after it gives, never a
\* mixture of the two.
ReadNeverTorn ==
  [][\A rd \in reads' :
       (rd \notin reads /\ rd.phase = "done" /\ rd.commits <= 1) =>
         rd.answer \in {rd.pre, CompleteAnswer(rd)}]_vars

\* C19: a decision that starts after a mutation has committed (no commit
\* falls inside its span) is the decision of the state the mutation left:
\* a committed grant is honoured, a committed revocation is enforced.
DecisionAfterCommitSeesIt ==
  [][\A rd \in reads' :
       (rd \notin reads /\ rd.kind = "check" /\ rd.phase = "done"
          /\ rd.commits = 0) =>
         rd.answer = CompleteAnswer(rd)]_vars

\* u2's check of "budget.edit" has just been allowed through the one role
\* that u1 assigned, with no commit inside its span; the check before the
\* assignment could only have been denied.
GrantCommittedBeforeCheck ==
  /\ last = "checkPermission"
  /\ \E rd \in reads :
       /\ rd.kind = "check" /\ rd.phase = "done" /\ rd.commits = 0
       /\ rd.answer.decision = "CustomRole"
  /\ Cardinality(user_roles) = 1
  /\ permission_audit_logs[Len(permission_audit_logs)].action = "role_assigned"

\* C21: after a successful UpdateRole with a permission array S the role's
\* grant set is exactly the catalogued codes of S (no earlier grant outside
\* S stays) and the grants of the other roles are untouched; without an
\* array the grants do not change.
UpdateRoleReplacesGrants ==
  [][last' = "updateRole" =>
       \A r \in RoleIds, permsGiven \in BOOLEAN, perms \in PermArrays :
         updateRole("u1", r, NoRow, permsGiven, perms) =>
           IF permsGiven
           THEN /\ {g.permission_id : g \in {h \in role_permissions' : h.role_id = r}}
                     = Catalogued(perms)
                /\ {h \in role_permissions' : h.role_id # r}
                     = {h \in role_permissions : h.role_id # r}
           ELSE role_permissions' = role_permissions]_vars

\* The role created as "Budget Manager" with "budget.edit" has just been
\* updated and now grants "admin.manage_all" only.
GrantsReplaced ==
  /\ last = "updateRole"
  /\ \E x \in workspace_roles :
       /\ x.name = "Budget Manager"
       /\ GrantedCodes(x) = {"admin.manage_all"}
       /\ \E i \in 1..Len(permission_audit_logs) :
            /\ permission_audit_logs[i].entity_id = x.id
            /\ permission_audit_logs[i].new_value[1].permissions = <<"budget.edit">>

\* At most one override row per (board, user) and per (project, user).
OneOverridePerKey ==
  /\ \A x, y \in board_permissions :
       (x.board_id = y.board_id /\ x.user_id = y.user_id) => x = y
  /\ \A x, y \in project_permissions :
       (x.project_id = y.project_id /\ x.user_id = y.user_id) => x = y

\* SetOverride on a key that has a row changes that row's level and nothing
\* else; RemoveOverride on a key without a row answers and changes no row.
OverrideStepsKeepOtherRows ==
  /\ last' = "setBoardPermission" =>
       \A b \in Boards, u \in Users, level \in Levels :
         (/\ BoardRows(b, u) # {}
          /\ \E by \in Users : setBoardPermission(by, b, u, level)) =>
           /\ board_permissions' \ BoardRows(b, u)' = board_permissions \ BoardRows(b, u)
           /\ BoardRows(b, u)' =
                {[x EXCEPT !.permission_level = level] : x \in BoardRows(b, u)}
  /\ last' = "removeBoardPermission" =>
       \A b \in BoardIds, u \in Users :
         (/\ BoardRows(b, u) = {}
          /\ \E by \in Users : removeBoardPermission(by, b, u)) =>
           board_permissions' = board_permissions
  /\ last' = "removeProjectPermission" =>
       \A p \in ProjectIds, u \in Users :
         (/\ ProjectRows(p, u) = {}
          /\ \E by \in Users : removeProjectPermission(by, p, u)) =>
           project_permissions' = project_permissions

\* C22: in every reachable state, whatever the order of the SetOverride and
\* RemoveOverride calls, there is at most one override per key; SetOverride
\* on an existing key changes only the level of its row, and RemoveOverride
\* on an absent key succeeds without changing anything.
OverrideKeysStayUnique ==
  /\ []OneOverridePerKey
  /\ [][OverrideStepsKeepOtherRows]_vars

\* Two keys of board b1 carry one row each just after a SetOverride; the
\* plain member u2 granted u3's row, so u2's own row was at level admin
\* and has been lowered to view since.
OverrideLoweredInPlace ==
  /\ last = "setBoardPermission"
  /\ RoleOf("w1", "u2") = "member"
  /\ \E x \in BoardRows("b1", "u2") : x.permission_level = "view"
  /\ \E y \in BoardRows("b1", "u3") : y.granted_by = "u2"
  /\ Cardinality(board_permissions) = 2

\* The principals whose membership of group g is stored.
GroupMembersOf(g) == {m.user_id : m \in {x \in user_group_members : x.group_id = g}}

\* A DeleteGroup(g) step leaves no membership row and no override of g, and
\* a former member who is neither owner/admin of the workspace nor holder
\* of a direct override is not allowed on the board or the project.
DeleteGroupStep ==
  last' = "deleteGroup" =>
    \A g \in GroupIds :
      (GroupRows(g) # {} /\ \E by \in Users : deleteGroup(by, g)) =>
        /\ GroupRows(g)' = {}
        /\ GroupMembersOf(g)' = {}
        /\ \A o \in GroupOverrides : o.group_id # g
        /\ \A u \in GroupMembersOf(g) :
             (/\ RoleOf("w1", u) \notin AdminRoles
              /\ BoardRows("b1", u) = {} /\ ProjectRows("p1", u) = {}) =>
               /\ boardAccess(u, "b1")' # "Allow"
               /\ projectAccess(u, "p1")' # "Allow"

AuditOnlyAfterCommit ==
  [][Len(permission_audit_logs') > Len(permission_audit_logs) =>
       /\ Len(permission_audit_logs') = Len(permission_audit_logs) + 1
       /\ LET e == permission_audit_logs'[Len(permission_audit_logs')] IN
          \/ /\ e.action = "role_created"
             /\ last' = "createRole"
             /\ \E x \in workspace_roles' :
                  x.id = e.entity_id /\ x.workspace_id = e.workspace_id
                  /\ x \notin workspace_roles
          \/ /\ e.action = "role_assigned"
             /\ last' = "assignRole"
             /\ [user_id |-> e.target_user_id, workspace_id |-> e.workspace_id,
                 role_id |-> e.entity_id] \in user_roles']_vars

\* A CreateRole has just been rolled back; the log holds the entries of
\* the one role created and of its assignment, and none for the failed
\* request.
RollbackLeftNoEntry ==
  /\ last = "createRole500Rollback"
  /\ Len(permission_audit_logs) = 2
  /\ permission_audit_logs[1].action = "role_created"
  /\ permission_audit_logs[2].action = "role_assigned"
  /\ Cardinality(workspace_roles) = 1

\* The assignment row of role r to principal u in workspace w.
Assignment(u, w, r) == [user_id |-> u, workspace_id |-> w, role_id |-> r]

\* C25: AssignRole on an assignment that exists leaves the assignment set
\* unchanged and appends no audit entry; RemoveRole on an assignment that
\* is absent succeeds and leaves the set unchanged.
AssignRemoveIdempotent ==
  [][/\ last' = "assignRole" =>
          \A r \in RoleIds :
            (/\ Assignment("u2", "w1", r) \in user_roles
             /\ assignRole("u1", "u2", "w1", r)) =>
              /\ user_roles' = user_roles
              /\ permission_audit_logs' = permission_audit_logs
     /\ last' = "removeRole" =>
          \A r \in RoleIds :
            (/\ Assignment("u2", "w1", r) \notin user_roles
             /\ removeRole("u1", "u2", "w1", r)) =>
              user_roles' = user_roles]_vars

\* C26: there is at most one workspace_members row per (workspace, user),
\* also when add-member requests of both routes interleave between their
\* check and their INSERT, and no answered add request changes or removes
\* a membership row that was stored before it (the role of an existing
\* membership stays as it was).
OneMembershipPerKey ==
  \A w \in Workspaces, u \in Users : Cardinality(MemberRows(w, u)) <= 1

AddStepsKeepRows ==
  (last' \in {"addMember", "addMember500", "invite"}) =>
    \A m \in workspace_members : m \in workspace_members'

MembershipUniqueUnderRaces ==
  []OneMembershipPerKey /\ [][AddStepsKeepRows]_vars

\* A racing POST /:workspaceId/members lost: it was answered 500 and u2 has
\* the one row stored by the request that won.
RacingAddLost ==
  /\ last = "addMember500"
  /\ Cardinality(MemberRows("w1", "u2")) = 1
  /\ pendingAdd = {}

\* C27: every user_roles row (user, workspace W, role R) names a role whose
\* row belongs to W and a user who holds a workspace_members row in W.
AssignmentsWithinWorkspace ==
  \A a \in user_roles :
    /\ \E x \in RoleRows(a.role_id) : x.workspace_id = a.workspace_id
    /\ MemberRows(a.workspace_id, a.user_id) # {}

\* C28: a user without a workspace_members row in the workspace of a board
\* or project is allowed by none of its access checks, whatever override
\* rows are stored for that user.
NonMemberNeverAllowedOnResource ==
  \A u \in Users :
    /\ \A b \in Boards :
         RoleOf(BoardWorkspace(b), u) = NoRow =>
           /\ boardAccess(u, b) # "Allow"
           /\ checkBoardAccess(u, b) # "Allow"
    /\ \A p \in Projects :
         RoleOf(ProjectWorkspace(p), u) = NoRow => projectAccess(u, p) # "Allow"

\* C29: a user who is added to the workspace with role member or viewer
\* is denied every permission code by checkPermission right after the add,
\* whatever roles were assigned during an earlier membership.
RejoinStartsWithoutPermissions ==
  [][(/\ last' = "addMember"
      /\ MemberRows("w1", "u2") = {}
      /\ RoleOf("w1", "u2")' \in {"member", "viewer"}) =>
       \A code \in PermissionCodes :
         ~Allows(checkPermission("u2", "w1", code))']_vars

\* C30: in every workspace that exists, the user of workspaces.owner_id is
\* exactly the user whose workspace_members.role is 'owner'.
OwnerIdIsOwnerRole ==
  \A w \in Workspaces :
    workspaces[w] # NoRow =>
      \A u \in Users : (workspaces[w] = u) <=> (RoleOf(w, u) = "owner")
====
